---- MODULE Spec2Model ----
(***************************************************************************)
(* Model of the Philodo -> Shopify CSV scraper (src/Main.py): the retry    *)
(* loop of get, the field heuristics of parse_product, extract_images,     *)
(* product_to_rows and the main loop that writes the CSV file.             *)
(*                                                                         *)
(* A Python str is a sequence of one-character strings, so that lower(),   *)
(* split(), strip(), re.sub() and the `in` test are computed character by  *)
(* character.  A character outside ASCII is written "U+XXXX".  None and "" *)
(* are both falsy and the program only ever tests an Optional[str] for     *)
(* truth, so both are the empty sequence.                                  *)
(***************************************************************************)
EXTENDS Integers, Sequences, FiniteSets, TLC

VARIABLES
    \* --- parse_product, title and handle (lines 184-191, 241-245)
    tpc,        \* position: "page" (markup being supplied), "title", "handle"
    titleTag,   \* soup.title.string
    h1Text,     \* the text of the first <h1>
    ntok,       \* number of tokens the markup holds so far
    title,      \* local variable title
    handle,     \* local variable handle
    \* --- extract_images and product_to_rows (lines 130-153, 284-325)
    ipc,        \* position: "scan", "built", "rows"
    imgs,       \* the <img> elements soup.find_all("img") has yielded so far
    nextra,     \* how many of them were drawn from ExtraImgs
    urls,       \* local variable urls of extract_images
    product,    \* the ProductData built from the page
    rows,       \* the value product_to_rows returned
    \* --- main and get (lines 85-97, 328-356)
    pc,         \* position in main
    url_list,   \* the argument urls of main, as the number of URLs
    idx,        \* 1-based index of the URL the for loop is at
    attempt,    \* loop variable attempt of get
    sleeps,     \* the arguments of the time.sleep calls of the current get
    outcomes,   \* the outcome of each requests.get call of the current get
    resp,       \* the page of the response get returned
    returned,   \* per processed URL, what parse_product returned
    products,   \* local variable products of main
    file0,      \* shopify_products.csv as main found it
    file,       \* shopify_products.csv now
    written     \* how many products the loop of lines 352-354 has written

titleVars == <<tpc, titleTag, h1Text, ntok, title, handle>>
imageVars == <<ipc, imgs, nextra, urls, product, rows>>
mainVars == <<pc, url_list, idx, attempt, sleeps, outcomes, resp, returned, products, file0, file, written>>
vars == <<titleVars, imageVars, mainVars>>

-----------------------------------------------------------------------------
(* Bounds of the model *)

\* tokens of markup text supplied for <title> and <h1> together
MaxTitleTokens == 4
\* <img> elements of one page
MaxImgs == 14
\* <img> elements of one page that are not a plain, new src URL
MaxExtra == 1
\* URLs passed to main
MaxUrls == 3

-----------------------------------------------------------------------------
(* Python str and list built-ins *)

Min(a, b) == IF a < b THEN a ELSE b
Max(a, b) == IF a > b THEN a ELSE b
Range(s) == {s[i] : i \in DOMAIN s}
Last(s) == s[Len(s)]

\* str.strip() with no argument strips these
Whitespace == {" ", "\t", "\n", "\r", "\f", "U+00A0"}

\* sub occurs in s starting at index i
OccursAt(s, sub, i) == \A k \in 1..Len(sub) : s[i + k - 1] = sub[k]

\* Python's `sub in s`
Contains(s, sub) == \E i \in 1..(Len(s) - Len(sub) + 1) : OccursAt(s, sub, i)

\* s.strip(chars) and s.strip()
StripOf(s, chars) ==
    LET keep == {i \in DOMAIN s : s[i] \notin chars}
    IN  IF keep = {} THEN <<>>
        ELSE LET lo == CHOOSE i \in keep : \A j \in keep : i <= j
                 hi == CHOOSE i \in keep : \A j \in keep : j <= i
             IN  SubSeq(s, lo, hi)

Strip(s) == StripOf(s, Whitespace)

\* the characters of s at the indices in keep, in order
Keep(s, keep) ==
    LET marked == [i \in DOMAIN s |-> IF i \in keep THEN s[i] ELSE ""]
    IN  SelectSeq(marked, LAMBDA c : c # "")

\* the concatenation of a sequence of strings
RECURSIVE Concat(_)
Concat(ss) ==
    IF Len(ss) = 0 THEN <<>>
    ELSE IF Len(ss) = 1 THEN ss[1]
    ELSE LET h == Len(ss) \div 2
         IN  Concat(SubSeq(ss, 1, h)) \o Concat(SubSeq(ss, h + 1, Len(ss)))

\* sep.join(ss)
Join(sep, ss) ==
    Concat([i \in 1..(2 * Len(ss) - 1) |-> IF i % 2 = 1 THEN ss[(i + 1) \div 2] ELSE sep])

\* s.split(sep) for a one-character sep: every occurrence splits, so a
\* leading separator yields a leading empty string
Split(s, sep) ==
    LET at == {i \in DOMAIN s : s[i] = sep}
        \* the position of the k-th separator; 0 and Len(s) + 1 bound the string
        cut(k) == IF k = 0 THEN 0
                  ELSE IF k > Cardinality(at) THEN Len(s) + 1
                  ELSE CHOOSE p \in at : Cardinality({q \in at : q < p}) = k - 1
    IN  [k \in 1..(Cardinality(at) + 1) |-> SubSeq(s, cut(k - 1) + 1, cut(k) - 1)]

UpperCase == <<"A","B","C","D","E","F","G","H","I","J","K","L","M",
               "N","O","P","Q","R","S","T","U","V","W","X","Y","Z">>
LowerCase == <<"a","b","c","d","e","f","g","h","i","j","k","l","m",
               "n","o","p","q","r","s","t","u","v","w","x","y","z">>
Digits == <<"0","1","2","3","4","5","6","7","8","9">>

\* str.lower() of an ASCII capital
LowerOf == [c \in Range(UpperCase) |-> LowerCase[CHOOSE i \in 1..26 : UpperCase[i] = c]]

\* str.lower() of one character; U+0130 lowers to two characters
LowerChar(c) ==
    IF c \in DOMAIN LowerOf THEN <<LowerOf[c]>>
    ELSE IF c = "U+00C9" THEN <<"U+00E9">>
    ELSE IF c = "U+0130" THEN <<"i", "U+0307">>
    ELSE <<c>>

\* s.lower()
Lower(s) == Concat([i \in DOMAIN s |-> LowerChar(s[i])])

\* str(n) for an integer n >= 0
RECURSIVE Str(_)
Str(n) == IF n < 10 THEN <<Digits[n + 1]>> ELSE Append(Str(n \div 10), Digits[(n % 10) + 1])

-----------------------------------------------------------------------------
(* CONFIG (lines 38-53) *)

DEFAULT_VENDOR == <<"P","h","i","l","o","d","o">>
DEFAULT_PRODUCT_TYPE == <<"S","p","o","r","t","i","n","g"," ","G","o","o","d","s"," ",">"," ","O","u","t","d","o","o","r"," ","R","e","c","r","e","a","t","i","o","n"," ",">"," ","C","y","c","l","i","n","g"," ",">"," ","E","l","e","c","t","r","i","c"," ","B","i","c","y","c","l","e","s">>
DEFAULT_TAGS == <<<<"e","-","b","i","k","e">>, <<"d","u","a","l"," ","m","o","t","o","r">>, <<"f","a","t"," ","t","i","r","e">>, <<"6","0","V">>>>
MAX_RETRIES == 3
\* RETRY_SLEEP = 1.5 seconds, in tenths of a second
RETRY_SLEEP == 15

-----------------------------------------------------------------------------
(* parse_product: 1) Title and 8) Handle *)

\* lines 185-191
TitleOf(titleString, h1) ==
    LET t0 == IF titleString # <<>> THEN Strip(titleString) ELSE <<>>
        h1_text == Strip(h1)
        t1 == IF Len(h1_text) > 2 THEN h1_text ELSE t0
    IN  IF t1 # <<>> THEN t1 ELSE <<"P","h","i","l","o","d","o"," ","E","l","e","c","t","r","i","c"," ","B","i","k","e">>

\* the characters the class [a-z0-9\-] matches
SlugChars == Range(LowerCase) \cup Range(Digits) \cup {"-"}

\* re.sub(r"[^a-z0-9\-]+", "-", s): every maximal run of other characters
\* becomes one hyphen
SubRuns(s) ==
    LET hyphened == [i \in DOMAIN s |-> IF s[i] \in SlugChars THEN s[i] ELSE "-"]
    IN  Keep(hyphened, {i \in DOMAIN s : s[i] \in SlugChars \/ i = 1 \/ s[i - 1] \in SlugChars})

\* line 242
Slug(t) == StripOf(SubRuns(Lower(t)), {"-"})

\* lines 242-245
HandleOf(t) ==
    LET slug == Slug(t)
    IN  IF ~Contains(slug, <<"p","h","i","l","o","d","o">>) THEN <<"p","h","i","l","o","d","o","-">> \o slug ELSE slug

-----------------------------------------------------------------------------
(* The states the three components rest in while another one is explored *)

\* None, where a page or a ProductData may stand
PyNone == [kind |-> "none"]

TitleIdle ==
    /\ tpc = "idle" /\ titleTag = <<>> /\ h1Text = <<>> /\ ntok = 0
    /\ title = <<>> /\ handle = <<>>

ImagesIdle ==
    /\ ipc = "idle" /\ imgs = <<>> /\ nextra = 0 /\ urls = <<>>
    /\ product = PyNone /\ rows = <<>>

\* shopify_products.csv: whether it exists, and the rows it holds
Absent == [exists |-> FALSE, lines |-> <<>>]

MainIdle ==
    /\ pc = "idle" /\ url_list = 0 /\ idx = 0 /\ attempt = 0 /\ sleeps = <<>>
    /\ outcomes = <<>> /\ resp = PyNone /\ returned = <<>> /\ products = <<>>
    /\ file0 = Absent /\ file = Absent /\ written = 0

-----------------------------------------------------------------------------
(* Title and handle of parse_product over the markup of <title> and <h1> *)

\* pieces of text a page's <title> and <h1> are made of
TitleTokens == {<<"P","h","i","l","o","d","o">>, <<" ">>, <<"-">>, <<"!">>, <<"X","9">>, <<"U+0130", "U+00C9">>}

TitleInit ==
    /\ tpc = "page" /\ titleTag = <<>> /\ h1Text = <<>> /\ ntok = 0
    /\ title = <<>> /\ handle = <<>>
    /\ ImagesIdle /\ MainIdle

\* the page's <title> holds one more piece of text
MarkupTitle ==
    /\ tpc = "page" /\ ntok < MaxTitleTokens
    /\ \E tok \in TitleTokens : titleTag' = titleTag \o tok
    /\ ntok' = ntok + 1
    /\ UNCHANGED <<tpc, h1Text, title, handle, imageVars, mainVars>>

\* the page's <h1> holds one more piece of text
MarkupH1 ==
    /\ tpc = "page" /\ ntok < MaxTitleTokens
    /\ \E tok \in TitleTokens : h1Text' = h1Text \o tok
    /\ ntok' = ntok + 1
    /\ UNCHANGED <<tpc, titleTag, title, handle, imageVars, mainVars>>

\* lines 185-191
ExtractTitle ==
    /\ tpc = "page"
    /\ title' = TitleOf(titleTag, h1Text)
    /\ tpc' = "title"
    /\ UNCHANGED <<titleTag, h1Text, ntok, handle, imageVars, mainVars>>

\* lines 242-245
DeriveHandle ==
    /\ tpc = "title"
    /\ handle' = HandleOf(title)
    /\ tpc' = "handle"
    /\ UNCHANGED <<titleTag, h1Text, ntok, title, imageVars, mainVars>>

TitleNext == MarkupTitle \/ MarkupH1 \/ ExtractTitle \/ DeriveHandle

SpecTitle == TitleInit /\ [][TitleNext]_vars

\* C2: for any title parse_product extracts, the derived handle contains only
\* lowercase letters a-z, digits and hyphens, has no leading and no trailing
\* hyphen, and contains "philodo".
C2_HandleWellFormed ==
    tpc = "handle" =>
        /\ Range(handle) \subseteq SlugChars
        /\ handle # <<>>
        /\ Head(handle) # "-"
        /\ Last(handle) # "-"
        /\ Contains(handle, <<"p","h","i","l","o","d","o">>)

-----------------------------------------------------------------------------
(* JSON values, as json.loads returns them.  t is the Python type; s the    *)
(* text of a str, or the decimal digits of a number; kids the items of a   *)
(* dict in source order (k the key, v the value) or of a list (k empty).   *)

JNull == [t |-> "null", s |-> <<>>, kids |-> <<>>]
JStr(s) == [t |-> "str", s |-> s, kids |-> <<>>]
JNum(n) == [t |-> "num", s |-> Str(n), kids |-> <<>>]
JDict(pairs) == [t |-> "dict", s |-> <<>>, kids |-> pairs]
JList(items) == [t |-> "list", s |-> <<>>, kids |-> [i \in DOMAIN items |-> [k |-> <<>>, v |-> items[i]]]]
\* the content of a script tag that json.loads rejects, or an empty one
JInvalid == [t |-> "invalid", s |-> <<>>, kids |-> <<>>]

Pair(k, v) == [k |-> k, v |-> v]

\* bool(v)
Truthy(v) ==
    CASE v.t = "str" -> v.s # <<>>
      [] v.t = "num" -> v.s # <<"0">>
      [] v.t \in {"dict", "list"} -> v.kids # <<>>
      [] OTHER -> FALSE

\* a or b
PyOr(a, b) == IF Truthy(a) THEN a ELSE b

\* d.get(key) on the items of a dict; a later item of the same key has
\* overwritten an earlier one
DictGet(pairs, key) ==
    LET at == {i \in DOMAIN pairs : pairs[i].k = key}
    IN  IF at = {} THEN JNull
        ELSE pairs[CHOOSE i \in at : \A j \in at : j <= i].v

\* str(v) of a str or a number
PyStr(v) == v.s

\* lines 104-121; data is kept as the items data.update has received
RECURSIVE MergeBlocks(_, _)
MergeBlocks(data, blocks) ==
    IF blocks = <<>> THEN data
    ELSE LET b == Head(blocks).v
         IN  MergeBlocks(IF b.t = "dict" THEN data \o b.kids ELSE data, Tail(blocks))

RECURSIVE extract_json_ld(_)
extract_json_ld(tags) ==
    IF tags = <<>> THEN <<>>
    ELSE LET block == Last(tags)
             before == extract_json_ld(SubSeq(tags, 1, Len(tags) - 1))
         IN  IF block.t = "invalid" THEN before
             ELSE MergeBlocks(before, IF block.t = "list" THEN block.kids ELSE <<Pair(<<>>, block)>>)

-----------------------------------------------------------------------------
(* clean_html_text, lines 124-127 *)

\* re.sub(r"\s+\n", "\n", s): a match starts at a whitespace character and,
\* being greedy, runs to the last newline of the whitespace around it; of the
\* match only that newline stays
SubSpaceNewline(s) ==
    Keep(s, {i \in DOMAIN s :
        ~ \E j \in (i + 1)..Len(s) :
              /\ s[j] = "\n"
              /\ \A k \in i..j : s[k] \in Whitespace})

\* re.sub(r"\n{3,}", "\n\n", s): of a run of newlines the first two stay
SubNewlines(s) ==
    Keep(s, {i \in DOMAIN s : ~(i > 2 /\ s[i] = "\n" /\ s[i - 1] = "\n" /\ s[i - 2] = "\n")})

clean_html_text(text) == Strip(SubNewlines(SubSpaceNewline(text)))

-----------------------------------------------------------------------------
(* extract_images, lines 130-153.  An <img> element is the record of the   *)
(* four attributes the function reads (an absent attribute is empty); its  *)
(* field cands is not read by the program: it lists the candidates (URL    *)
(* and descriptor) that the text of srcset was written from.               *)

Img(src, data_src, data_original, srcset, cands) ==
    [src |-> src, data_src |-> data_src, data_original |-> data_original,
     srcset |-> srcset, cands |-> cands]

\* line 134
ImgSrc(img) ==
    IF img.src # <<>> THEN img.src
    ELSE IF img.data_src # <<>> THEN img.data_src
    ELSE img.data_original

\* line 138
Irrelevant == {<<"l","o","g","o">>, <<"i","c","o","n">>, <<"s","p","i","n","n","e","r">>, <<"p","l","a","c","e","h","o","l","d","e","r">>, <<"s","v","g">>}

\* lines 135-139: the element is passed over
Skipped(img) ==
    LET src == ImgSrc(img)
        low == Lower(src)
    IN  src = <<>> \/ \E x \in Irrelevant : Contains(low, x)

\* line 142
SrcsetCandidates(srcset) ==
    LET parts == SelectSeq(Split(srcset, ","), LAMBDA s : Strip(s) # <<>>)
    IN  [i \in DOMAIN parts |-> Head(Split(parts[i], " "))]

\* lines 141-145: the URL appended for an element that is not passed over
RecordedUrl(img) ==
    LET candidates == SrcsetCandidates(img.srcset)
    IN  IF img.srcset # <<>> /\ candidates # <<>> THEN Last(candidates) ELSE ImgSrc(img)

\* one iteration of the loop of lines 133-145
ScanImg(acc, img) == IF Skipped(img) THEN acc ELSE Append(acc, RecordedUrl(img))

RECURSIVE ScanAll(_)
ScanAll(elements) ==
    IF elements = <<>> THEN <<>>
    ELSE ScanImg(ScanAll(SubSeq(elements, 1, Len(elements) - 1)), Last(elements))

\* lines 147-152
RECURSIVE DedupeFrom(_, _, _)
DedupeFrom(us, seen, deduped) ==
    IF us = <<>> THEN deduped
    ELSE IF Head(us) \notin seen
         THEN DedupeFrom(Tail(us), seen \cup {Head(us)}, Append(deduped, Head(us)))
         ELSE DedupeFrom(Tail(us), seen, deduped)

\* lines 147-152 with seen holding only the URL before
DedupeAdjacent(us) == Keep(us, {i \in DOMAIN us : i = 1 \/ us[i] # us[i - 1]})

Dedupe(us) == DedupeFrom(us, {}, <<>>)

\* line 153: Shopify's limit of images per product
IMAGE_LIMIT == 12

\* line 153
Truncate(us) == SubSeq(us, 1, Min(Len(us), IMAGE_LIMIT))

extract_images(elements) == Truncate(Dedupe(ScanAll(elements)))

-----------------------------------------------------------------------------
(* parse_product, lines 178-269, on the page of a response.  A page is the *)
(* record of what the BeautifulSoup queries of parse_product return:       *)
(*   titleString     soup.title.string                                     *)
(*   h1              the text of soup.find("h1")                           *)
(*   ld              the contents of the application/ld+json script tags   *)
(*   descContainer   str() of the first element of a description class     *)
(*   specs           the value of extract_specs_block (None is empty)      *)
(*   metaAmount      meta property="product:price:amount": present, content*)
(*   metaName        meta name="price": present, content                   *)
(*   imgs            soup.find_all("img")                                  *)

Meta(present, content) == [present |-> present, content |-> content]

\* lines 197-215
DescriptionOf(page, json_ld) ==
    LET desc == PyOr(DictGet(json_ld, <<"d","e","s","c","r","i","p","t","i","o","n">>), DictGet(json_ld, <<"D","e","s","c","r","i","p","t","i","o","n">>))
        d0 == IF ~Truthy(desc) THEN page.descContainer
              ELSE <<"<","p",">">> \o PyStr(desc) \o <<"<","/","p",">">>
        d1 == IF page.specs # <<>> /\ ~Contains(d0, page.specs)
              THEN d0 \o <<"\n","<","h","3",">","S","p","e","c","i","f","i","c","a","t","i","o","n","s","<","/","h","3",">","\n">> \o page.specs
              ELSE d0
        cleaned == clean_html_text(d1)
    IN  IF cleaned # <<>> THEN cleaned
        ELSE <<"<","p",">","H","i","g","h","-","p","e","r","f","o","r","m","a","n","c","e"," ","d","u","a","l","-","m","o","t","o","r"," ","e","-","b","i","k","e",".","<","/","p",">">>

\* line 224 raises AttributeError: offers[0] has no attribute get
PriceRaises(json_ld) ==
    LET offers == DictGet(json_ld, <<"o","f","f","e","r","s">>)
    IN  offers.t = "list" /\ offers.kids # <<>> /\ offers.kids[1].v.t # "dict"

\* lines 218-229
PriceOf(page, json_ld) ==
    LET offers == DictGet(json_ld, <<"o","f","f","e","r","s">>)
        p0 == IF offers.t = "dict" THEN DictGet(offers.kids, <<"p","r","i","c","e">>)
              ELSE IF offers.t = "list" /\ offers.kids # <<>>
                   THEN DictGet(offers.kids[1].v.kids, <<"p","r","i","c","e">>)
              ELSE JNull
        price_meta == IF page.metaAmount.present THEN page.metaAmount ELSE page.metaName
    IN  IF Truthy(p0) THEN p0
        ELSE IF price_meta.present /\ price_meta.content # <<>> THEN JStr(price_meta.content)
        ELSE p0

\* lines 232-236
SkuOf(json_ld) ==
    LET sku == DictGet(json_ld, <<"s","k","u">>)
        offers == DictGet(json_ld, <<"o","f","f","e","r","s">>)
    IN  IF ~Truthy(sku) /\ offers.t = "dict" THEN DictGet(offers.kids, <<"s","k","u">>)
        ELSE sku

\* lines 182-269: the ProductData returned, or the exception raised
parse_product(page) ==
    LET json_ld == extract_json_ld(page.ld)
        t == TitleOf(page.titleString, page.h1)
    IN  IF PriceRaises(json_ld) THEN [kind |-> "raise", exc |-> "AttributeError"]
        ELSE [kind |-> "product",
              handle |-> HandleOf(t),
              title |-> t,
              body_html |-> DescriptionOf(page, json_ld),
              vendor |-> DEFAULT_VENDOR,
              product_type |-> DEFAULT_PRODUCT_TYPE,
              tags |-> DEFAULT_TAGS,
              images |-> extract_images(page.imgs),
              price |-> PriceOf(page, json_ld),
              compare_at_price |-> JNull,
              sku |-> SkuOf(json_ld),
              grams |-> JNull,
              weight_unit |-> <<"l","b">>,
              requires_shipping |-> TRUE,
              taxable |-> TRUE,
              published |-> TRUE,
              option1_name |-> <<"T","i","t","l","e">>,
              option1_value |-> <<"D","e","f","a","u","l","t"," ","T","i","t","l","e">>]

-----------------------------------------------------------------------------
(* SHOPIFY CSV WRITER, lines 276-325 *)

CSV_HEADERS == <<
    <<"H","a","n","d","l","e">>, <<"T","i","t","l","e">>, <<"B","o","d","y"," ","(","H","T","M","L",")">>, <<"V","e","n","d","o","r">>, <<"S","t","a","n","d","a","r","d"," ","P","r","o","d","u","c","t"," ","T","y","p","e">>, <<"T","a","g","s">>, <<"P","u","b","l","i","s","h","e","d">>,
    <<"O","p","t","i","o","n","1"," ","N","a","m","e">>, <<"O","p","t","i","o","n","1"," ","V","a","l","u","e">>, <<"V","a","r","i","a","n","t"," ","S","K","U">>, <<"V","a","r","i","a","n","t"," ","G","r","a","m","s">>, <<"V","a","r","i","a","n","t"," ","I","n","v","e","n","t","o","r","y"," ","T","r","a","c","k","e","r">>,
    <<"V","a","r","i","a","n","t"," ","I","n","v","e","n","t","o","r","y"," ","P","o","l","i","c","y">>, <<"V","a","r","i","a","n","t"," ","F","u","l","f","i","l","l","m","e","n","t"," ","S","e","r","v","i","c","e">>, <<"V","a","r","i","a","n","t"," ","P","r","i","c","e">>, <<"V","a","r","i","a","n","t"," ","C","o","m","p","a","r","e"," ","A","t"," ","P","r","i","c","e">>,
    <<"V","a","r","i","a","n","t"," ","R","e","q","u","i","r","e","s"," ","S","h","i","p","p","i","n","g">>, <<"V","a","r","i","a","n","t"," ","T","a","x","a","b","l","e">>, <<"V","a","r","i","a","n","t"," ","W","e","i","g","h","t"," ","U","n","i","t">>, <<"I","m","a","g","e"," ","S","r","c">>, <<"I","m","a","g","e"," ","P","o","s","i","t","i","o","n">>,
    <<"I","m","a","g","e"," ","A","l","t"," ","T","e","x","t">>, <<"S","E","O"," ","T","i","t","l","e">>, <<"S","E","O"," ","D","e","s","c","r","i","p","t","i","o","n">>, <<"G","o","o","g","l","e"," ","P","r","o","d","u","c","t"," ","C","a","t","e","g","o","r","y">> >>

\* `v or ""` as csv.writer writes it
OrEmpty(v) == IF Truthy(v) THEN PyStr(v) ELSE <<>>

PyBool(b) == IF b THEN <<"T","R","U","E">> ELSE <<"F","A","L","S","E">>

\* lines 289-315
BaseRow(p) ==
    LET first_img == IF p.images # <<>> THEN p.images[1] ELSE <<>>
    IN  << p.handle,
           p.title,
           p.body_html,
           p.vendor,
           <<>>,
           Join(<<",">>, p.tags),
           PyBool(p.published),
           p.option1_name,
           p.option1_value,
           OrEmpty(p.sku),
           OrEmpty(p.grams),
           <<"s","h","o","p","i","f","y">>,
           <<"d","e","n","y">>,
           <<"m","a","n","u","a","l">>,
           OrEmpty(p.price),
           OrEmpty(p.compare_at_price),
           PyBool(p.requires_shipping),
           PyBool(p.taxable),
           p.weight_unit,
           first_img,
           IF first_img # <<>> THEN <<"1">> ELSE <<>>,
           p.title,
           <<"B","u","y"," ">> \o p.title \o <<" ","b","y"," ">> \o p.vendor \o <<" ","U+2013"," ","d","u","a","l"," ","m","o","t","o","r"," ","e","-","b","i","k","e",","," ","f","a","s","t"," ","s","h","i","p","p","i","n","g",".">>,
           <<"S","p","o","r","t","i","n","g"," ","G","o","o","d","s"," ",">"," ","O","u","t","d","o","o","r"," ","R","e","c","r","e","a","t","i","o","n"," ",">"," ","C","y","c","l","i","n","g"," ",">"," ","E","l","e","c","t","r","i","c"," ","B","i","c","y","c","l","e","s">> >>

\* lines 320-323: the row of image number i (i >= 2)
ImageRow(p, i) ==
    << p.handle, <<>>, <<>>, <<>>, <<>>, <<>>, <<>>, <<>>, <<>>, <<>>, <<>>, <<>>, <<>>,
       <<>>, <<>>, <<>>, <<>>, <<>>, <<>>,
       p.images[i], Str(i), <<>>, <<>>, <<>>, <<>> >>

\* lines 284-325
product_to_rows(p) ==
    <<BaseRow(p)>> \o [k \in 1..(Len(p.images) - 1) |-> ImageRow(p, k + 1)]

-----------------------------------------------------------------------------
(* Pages *)

Page(titleString, h1, ld, descContainer, specs, metaAmount, metaName, elements) ==
    [kind |-> "page", titleString |-> titleString, h1 |-> h1, ld |-> ld,
     descContainer |-> descContainer, specs |-> specs,
     metaAmount |-> metaAmount, metaName |-> metaName, imgs |-> elements]

NoMeta == Meta(FALSE, <<>>)

\* a page with none of the things parse_product looks for
BarePage == Page(<<>>, <<>>, <<>>, <<>>, <<>>, NoMeta, NoMeta, <<>>)

\* a product page with JSON-LD: a Product block whose offers is an object
FalconLd ==
    JDict(<< Pair(<<"n","a","m","e">>, JStr(<<"F","a","l","c","o","n">>)),
             Pair(<<"d","e","s","c","r","i","p","t","i","o","n">>, JStr(<<"D","u","a","l"," ","m","o","t","o","r"," ","\n","\n","\n","\n"," ","e","-","b","i","k","e">>)),
             Pair(<<"s","k","u">>, JStr(<<"F","A","L","-","6","0">>)),
             Pair(<<"o","f","f","e","r","s">>, JDict(<<Pair(<<"p","r","i","c","e">>, JStr(<<"1","8","9","9",".","0","0">>)), Pair(<<"s","k","u">>, JStr(<<"O","F","F","-","1">>))>>)) >>)

FalconPage ==
    Page(<<"F","a","l","c","o","n"," ","|"," ","P","h","i","l","o","d","o">>, <<" ","P","h","i","l","o","d","o"," ","F","a","l","c","o","n"," ","6","0","V"," ">>, <<JInvalid, FalconLd>>,
         <<"<","d","i","v"," ","c","l","a","s","s","=","\"","r","t","e","\"",">","x","<","/","d","i","v",">">>, <<"<","h","2",">","S","p","e","c","s","<","/","h","2",">","\n","<","p",">","6","0","V","<","/","p",">">>, NoMeta, NoMeta, <<>>)

\* a page with a title and nothing else but its <img> elements
ListingPage == Page(<<"P","h","i","l","o","d","o"," ","F","o","r","e","s","t","e","r">>, <<>>, <<>>, <<>>, <<>>, NoMeta, NoMeta, <<>>)

-----------------------------------------------------------------------------
(* extract_images and product_to_rows over the <img> elements of a page *)

\* the URL of the k-th plain image of the page
FreshUrl(k) == <<"/","i">> \o Str(k)

PlainImg(u) == Img(u, <<>>, <<>>, <<>>, <<>>)

Candidate(u, d) == [url |-> u, desc |-> d]

\* the text of a srcset attribute: the candidates, each a URL and an optional
\* descriptor after a space, separated by sep
FormatSrcset(cands, sep) ==
    Join(sep, [i \in DOMAIN cands |->
                cands[i].url \o (IF cands[i].desc # <<>> THEN <<" ">> \o cands[i].desc ELSE <<>>)])

SrcsetImg(src, cands, sep) == Img(src, <<>>, <<>>, FormatSrcset(cands, sep), cands)

Small == Candidate(<<"/","a">>, <<"1","x">>)

\* the <img> elements of a page that are not a plain new src URL: without
\* any source, of a URL seen before, of a logo, with data-src or
\* data-original for src, and with a srcset of two candidates
ExtraImgs ==
    { PlainImg(<<>>),
      PlainImg(FreshUrl(1)),
      PlainImg(<<"/","c","d","n","/","L","O","G","O",".","p","n","g">>),
      Img(<<>>, <<"/","d">>, <<"/","o">>, <<>>, <<>>),
      Img(<<>>, <<>>, <<"/","L","o","g","o","-","o">>, <<>>, <<>>),
      SrcsetImg(<<"/","s">>, <<Small, Candidate(<<"/","h","d">>, <<"2","x">>)>>, <<",">>),
      SrcsetImg(<<"/","s">>, <<Small, Candidate(<<"/","h","d">>, <<"2","x">>)>>, <<","," ">>),
      SrcsetImg(<<"/","s">>, <<Candidate(<<"/","a">>, <<>>), Candidate(<<"/","b">>, <<>>)>>, <<",">>),
      SrcsetImg(<<"/","s">>, <<Small, Candidate(<<"/","L","o","g","o","-","h","d">>, <<"8","0","0","w">>)>>, <<",">>) }

ImagesInit ==
    /\ ipc = "scan" /\ imgs = <<>> /\ nextra = 0 /\ urls = <<>>
    /\ product = PyNone /\ rows = <<>>
    /\ TitleIdle /\ MainIdle

\* lines 133-145, one iteration: the next <img> is a plain one of a new URL
ScanPlain ==
    /\ ipc = "scan" /\ Len(imgs) < MaxImgs
    /\ LET img == PlainImg(FreshUrl(Len(imgs) - nextra + 1))
       IN  /\ imgs' = Append(imgs, img)
           /\ urls' = ScanImg(urls, img)
    /\ UNCHANGED <<ipc, nextra, product, rows, titleVars, mainVars>>

\* lines 133-145, one iteration: the next <img> is one of ExtraImgs
ScanExtra ==
    /\ ipc = "scan" /\ Len(imgs) < MaxImgs /\ nextra < MaxExtra
    /\ \E img \in ExtraImgs :
           /\ imgs' = Append(imgs, img)
           /\ urls' = ScanImg(urls, img)
    /\ nextra' = nextra + 1
    /\ UNCHANGED <<ipc, product, rows, titleVars, mainVars>>

\* parse_product on the page that holds these <img> elements
Build ==
    /\ ipc = "scan"
    /\ \E base \in {ListingPage} :
           product' = parse_product([base EXCEPT !.imgs = imgs])
    /\ ipc' = "built"
    /\ UNCHANGED <<imgs, nextra, urls, rows, titleVars, mainVars>>

\* product_to_rows on the record
Rows ==
    /\ ipc = "built"
    /\ rows' = product_to_rows(product)
    /\ ipc' = "rows"
    /\ UNCHANGED <<imgs, nextra, urls, product, titleVars, mainVars>>

ImagesNext == ScanPlain \/ ScanExtra \/ Build \/ Rows

SpecImages == ImagesInit /\ [][ImagesNext]_vars

\* the column of CSV_HEADERS of this name
Col(name) == CHOOSE i \in DOMAIN CSV_HEADERS : CSV_HEADERS[i] = name

-----------------------------------------------------------------------------
(* main and get, lines 85-97 and 328-356 *)

\* a product page whose offers is a list of offers, whose description and
\* sku are numbers, and that states a price in a meta tag
ForesterPage ==
    Page(<<>>, <<"F","o","r","e","s","t","e","r">>, 
         << JList(<< JStr(<<"x">>),
                     JDict(<< Pair(<<"d","e","s","c","r","i","p","t","i","o","n">>, JNum(60)), Pair(<<"s","k","u">>, JNum(7)),
                              Pair(<<"o","f","f","e","r","s">>, JList(<<JDict(<<Pair(<<"p","r","i","c","e">>, JNum(0))>>)>>)) >>) >>) >>,
         <<>>, <<>>, Meta(TRUE, <<>>), Meta(TRUE, <<"1","4","9","9">>),
         <<PlainImg(<<"/","f","o","r","e","s","t","e","r",".","j","p","g">>)>>)

\* a product page whose offers is a list that does not start with an object
OfferNamesPage ==
    Page(<<"H","u","n","t","e","r">>, <<>>,
         <<JDict(<<Pair(<<"o","f","f","e","r","s">>, JList(<<JStr(<<"i","n"," ","s","t","o","c","k">>), JDict(<<Pair(<<"p","r","i","c","e">>, JStr(<<"9">>))>>)>>))>>)>>,
         <<>>, <<>>, NoMeta, NoMeta, <<>>)

\* the pages a URL may answer with
MainPages ==
    { BarePage,
      [FalconPage EXCEPT !.imgs = <<PlainImg(<<"/","f","a","l","c","o","n","-","1",".","j","p","g">>), PlainImg(<<"/","l","o","g","o",".","s","v","g">>), PlainImg(<<"/","f","a","l","c","o","n","-","2",".","j","p","g">>)>>],
      ForesterPage,
      OfferNamesPage }

\* what requests.get does other than answer 200: another status, or a
\* requests.RequestException
Failures == {"503", "RequestException"}

\* a file another run left behind
StaleFile == [exists |-> TRUE, lines |-> << <<<<"H","a","n","d","l","e">>>>, <<<<"s","t","a","l","e">>>> >>]

Init ==
    /\ pc = "start"
    /\ url_list \in 0..MaxUrls
    /\ idx = 1 /\ attempt = 0 /\ sleeps = <<>> /\ outcomes = <<>>
    /\ resp = PyNone /\ returned = <<>> /\ products = <<>>
    /\ file0 \in {Absent, StaleFile} /\ file = file0 /\ written = 0
    /\ TitleIdle /\ ImagesIdle

\* lines 329-334
Start ==
    /\ pc = "start"
    /\ pc' = IF url_list = 0 THEN "done" ELSE "loop"
    /\ UNCHANGED <<url_list, idx, attempt, sleeps, outcomes, resp, returned, products,
                   file0, file, written, titleVars, imageVars>>

\* lines 335-337, 179 and 86: the for loop takes the next URL and calls
\* parse_product, which calls get
NextUrl ==
    /\ pc = "loop" /\ idx <= url_list
    /\ attempt' = 1 /\ sleeps' = <<>> /\ outcomes' = <<>> /\ resp' = PyNone
    /\ pc' = "request"
    /\ UNCHANGED <<url_list, idx, returned, products, file0, file, written,
                   titleVars, imageVars>>

\* lines 88-90: the request is answered with status 200, and get returns
RequestOk ==
    /\ pc = "request"
    /\ \E page \in MainPages : resp' = page
    /\ outcomes' = Append(outcomes, "200")
    /\ pc' = "parse"
    /\ UNCHANGED <<url_list, idx, attempt, sleeps, returned, products, file0, file,
                   written, titleVars, imageVars>>

\* lines 88-94: the request fails
RequestFails ==
    /\ pc = "request"
    /\ \E f \in Failures : outcomes' = Append(outcomes, f)
    /\ pc' = "sleep"
    /\ UNCHANGED <<url_list, idx, attempt, sleeps, resp, returned, products, file0,
                   file, written, titleVars, imageVars>>

\* lines 95 and 86: time.sleep, then the next attempt if one is left
Sleep ==
    /\ pc = "sleep"
    /\ sleeps' = Append(sleeps, RETRY_SLEEP * attempt)
    /\ IF attempt < MAX_RETRIES
       THEN attempt' = attempt + 1 /\ pc' = "request"
       ELSE attempt' = attempt /\ pc' = "giveup"
    /\ UNCHANGED <<url_list, idx, outcomes, resp, returned, products, file0, file,
                   written, titleVars, imageVars>>

\* get raising once the attempts are used up
GiveUpRaises ==
    /\ pc = "giveup"
    /\ pc' = "raised"
    /\ UNCHANGED <<url_list, idx, attempt, sleeps, outcomes, resp, returned, products,
                   file0, file, written, titleVars, imageVars>>

\* lines 96-97, 180-181 and 341-342: get returns None, parse_product
\* returns None, main reports the URL and goes on
GiveUp ==
    /\ pc = "giveup"
    /\ returned' = Append(returned, PyNone)
    /\ idx' = idx + 1
    /\ pc' = "loop"
    /\ UNCHANGED <<url_list, attempt, sleeps, outcomes, resp, products, file0, file,
                   written, titleVars, imageVars>>

\* lines 182-269 and 338-340: parse_product builds the record and main
\* appends it; an exception parse_product raises leaves main
Parse ==
    /\ pc = "parse"
    /\ LET p == parse_product(resp)
       IN  IF p.kind = "raise"
           THEN pc' = "raised" /\ UNCHANGED <<idx, returned, products>>
           ELSE /\ products' = Append(products, p)
                /\ returned' = Append(returned, p)
                /\ idx' = idx + 1
                /\ pc' = "loop"
    /\ UNCHANGED <<url_list, attempt, sleeps, outcomes, resp, file0, file, written,
                   titleVars, imageVars>>

\* the file opened before products is tested
EndLoopOpensFirst ==
    /\ pc = "loop" /\ idx > url_list
    /\ file' = [exists |-> TRUE, lines |-> <<>>]
    /\ pc' = IF products = <<>> THEN "done" ELSE "header"
    /\ UNCHANGED <<url_list, idx, attempt, sleeps, outcomes, resp, returned, products,
                   file0, written, titleVars, imageVars>>

\* lines 344-349: after the last URL, main returns if it has no product and
\* opens the file for writing otherwise
EndLoop ==
    /\ pc = "loop" /\ idx > url_list
    /\ IF products = <<>>
       THEN pc' = "done" /\ file' = file
       ELSE pc' = "header" /\ file' = [exists |-> TRUE, lines |-> <<>>]
    /\ UNCHANGED <<url_list, idx, attempt, sleeps, outcomes, resp, returned, products,
                   file0, written, titleVars, imageVars>>

\* line 351
WriteHeader ==
    /\ pc = "header"
    /\ file' = [file EXCEPT !.lines = Append(@, CSV_HEADERS)]
    /\ written' = 0
    /\ pc' = "write"
    /\ UNCHANGED <<url_list, idx, attempt, sleeps, outcomes, resp, returned, products,
                   file0, titleVars, imageVars>>

\* lines 352-354: the rows of the next product
WriteProduct ==
    /\ pc = "write" /\ written < Len(products)
    /\ file' = [file EXCEPT !.lines = @ \o product_to_rows(products[written + 1])]
    /\ written' = written + 1
    /\ UNCHANGED <<pc, url_list, idx, attempt, sleeps, outcomes, resp, returned,
                   products, file0, titleVars, imageVars>>

\* lines 354-356: the file is closed and main returns
Close ==
    /\ pc = "write" /\ written = Len(products)
    /\ pc' = "done"
    /\ UNCHANGED <<url_list, idx, attempt, sleeps, outcomes, resp, returned, products,
                   file0, file, written, titleVars, imageVars>>

\* the run is interrupted from outside (a signal) before main has returned
Interrupt ==
    /\ pc \notin {"done", "raised", "killed"}
    /\ pc' = "killed"
    /\ UNCHANGED <<url_list, idx, attempt, sleeps, outcomes, resp, returned, products,
                   file0, file, written, titleVars, imageVars>>

Next ==
    \/ Start \/ NextUrl \/ RequestOk \/ RequestFails \/ Sleep \/ GiveUp \/ Parse
    \/ EndLoop \/ WriteHeader \/ WriteProduct \/ Close \/ Interrupt

Spec == Init /\ [][Next]_vars

-----------------------------------------------------------------------------
(* The claims *)

\* C1: every row product_to_rows returns has exactly 25 entries, one per
\* CSV_HEADERS column in header order, so that in the primary row the fixed
\* values stand under their named columns: Variant Inventory Tracker is
\* "shopify", Variant Inventory Policy "deny", Variant Fulfillment Service
\* "manual", SEO Description "Buy {title} by {vendor} - dual motor e-bike,
\* fast shipping." and Google Product Category the taxonomy string.
C1_RowsMatchHeaders ==
    ipc = "rows" =>
        /\ \A i \in DOMAIN rows : Len(rows[i]) = 25 /\ Len(rows[i]) = Len(CSV_HEADERS)
        /\ rows[1][Col(<<"V","a","r","i","a","n","t"," ","I","n","v","e","n","t","o","r","y"," ","T","r","a","c","k","e","r">>)] = <<"s","h","o","p","i","f","y">>
        /\ rows[1][Col(<<"V","a","r","i","a","n","t"," ","I","n","v","e","n","t","o","r","y"," ","P","o","l","i","c","y">>)] = <<"d","e","n","y">>
        /\ rows[1][Col(<<"V","a","r","i","a","n","t"," ","F","u","l","f","i","l","l","m","e","n","t"," ","S","e","r","v","i","c","e">>)] = <<"m","a","n","u","a","l">>
        /\ rows[1][Col(<<"S","E","O"," ","D","e","s","c","r","i","p","t","i","o","n">>)] =
               <<"B","u","y"," ">> \o product.title \o <<" ","b","y"," ">> \o product.vendor
                   \o <<" ","U+2013"," ","d","u","a","l"," ","m","o","t","o","r"," ","e","-","b","i","k","e",","," ","f","a","s","t"," ","s","h","i","p","p","i","n","g",".">>
        /\ rows[1][Col(<<"G","o","o","g","l","e"," ","P","r","o","d","u","c","t"," ","C","a","t","e","g","o","r","y">>)] =
               <<"S","p","o","r","t","i","n","g"," ","G","o","o","d","s"," ",">"," ","O","u","t","d","o","o","r"," ","R","e","c","r","e","a","t","i","o","n"," ",">"," ","C","y","c","l","i","n","g"," ",">"," ","E","l","e","c","t","r","i","c"," ","B","i","c","y","c","l","e","s">>

\* C3: for a record with n images product_to_rows returns max(1, n) rows in
\* image order: the first carries the first image URL with image position
\* "1", and for every k in 2..n the k-th row carries only the handle, the
\* k-th image URL and the decimal string of k as image position, every other
\* column being the empty string.
C3_RowPerImage ==
    ipc = "rows" =>
        LET n == Len(product.images)
            named == {Col(<<"H","a","n","d","l","e">>), Col(<<"I","m","a","g","e"," ","S","r","c">>), Col(<<"I","m","a","g","e"," ","P","o","s","i","t","i","o","n">>)}
        IN  /\ Len(rows) = Max(1, n)
            /\ n >= 1 => /\ rows[1][Col(<<"I","m","a","g","e"," ","S","r","c">>)] = product.images[1]
                         /\ rows[1][Col(<<"I","m","a","g","e"," ","P","o","s","i","t","i","o","n">>)] = <<"1">>
            /\ \A k \in 2..n :
                   /\ rows[k][Col(<<"H","a","n","d","l","e">>)] = product.handle
                   /\ rows[k][Col(<<"I","m","a","g","e"," ","S","r","c">>)] = product.images[k]
                   /\ rows[k][Col(<<"I","m","a","g","e"," ","P","o","s","i","t","i","o","n">>)] = Str(k)
                   /\ \A c \in DOMAIN rows[k] \ named : rows[k][c] = <<>>

\* C4: for an <img> whose srcset lists several comma-separated candidates,
\* with or without whitespace after the commas and with or without
\* descriptors, the URL extract_images records for the element is the URL of
\* the last candidate listed.
C4_SrcsetLastCandidate ==
    (ipc = "scan" /\ imgs # <<>>) =>
        LET img == Last(imgs)
        IN  (Len(img.cands) >= 2 /\ ~Skipped(img)) =>
                (urls # <<>> /\ Last(urls) = Last(img.cands).url)

\* C5: no URL in the list extract_images returns contains "logo" in any
\* letter case, wherever its <img> stands and whichever attribute (src,
\* data-src, data-original or srcset) the URL was taken from.
C5_NoLogo ==
    ipc \in {"built", "rows"} =>
        \A i \in DOMAIN product.images : ~Contains(Lower(product.images[i]), <<"l","o","g","o">>)

\* the index of the first occurrence of u in us
FirstAt(us, u) == CHOOSE i \in DOMAIN us : us[i] = u /\ \A j \in 1..(i - 1) : us[j] # u

\* C6: the list extract_images returns holds each URL at most once, in the
\* order of first occurrence among the accepted images, and is the first 12
\* distinct URLs: it never has more than 12 entries.
C6_DedupedFirstTwelve ==
    ipc = "built" =>
        LET out == product.images
            first == [u \in Range(urls) |-> FirstAt(urls, u)]
        IN  /\ \A i, j \in DOMAIN out : i # j => out[i] # out[j]
            /\ Range(out) \subseteq Range(urls)
            /\ \A i \in 1..(Len(out) - 1) : first[out[i]] < first[out[i + 1]]
            /\ Len(out) <= 12
            /\ Len(out) = Min(12, Cardinality(Range(urls)))
            /\ \A u \in Range(urls) :
                   (out # <<>> /\ first[u] < first[Last(out)]) => u \in Range(out)

\* a page of more than 12 distinct image URLs, one of them met twice
C6_Witness ==
    /\ ipc = "built"
    /\ Cardinality(Range(urls)) > 12
    /\ Len(urls) > Cardinality(Range(urls))
    /\ Len(product.images) = 12

\* C7: for any fetched page, whatever the shape of its JSON-LD data,
\* parse_product returns a record and raises nothing, so that no exception
\* leaves main.
C7_ParseNeverRaises ==
    /\ pc = "parse" => parse_product(resp).kind = "product"
    /\ pc # "raised"

\* C8: a URL whose 3 attempts all fail yields no record; main raises nothing
\* on it and goes on to the next URL; the records of the other URLs are in
\* products in input order.
C8_FailedUrlSkipped ==
    /\ pc = "giveup" =>
           /\ Len(outcomes) = 3
           /\ \A k \in DOMAIN outcomes : outcomes[k] \in Failures
    /\ \A i \in DOMAIN returned :
           returned[i].kind = "none" => idx > i
    /\ pc = "raised" => (outcomes # <<>> /\ Last(outcomes) = "200")
    /\ pc \in {"loop", "header", "write", "done"} => Len(returned) = idx - 1
    /\ products = SelectSeq(returned, LAMBDA r : r.kind = "product")

\* a run of three URLs, the second of which failed three times, that ended
\* with the records of the first and the third
C8_Witness ==
    /\ pc = "done"
    /\ Len(returned) = 3
    /\ returned[1].kind = "product"
    /\ returned[2].kind = "none"
    /\ returned[3].kind = "product"
    /\ returned[1].title # returned[3].title
    /\ products = <<returned[1], returned[3]>>

\* C9: the output file is opened for writing only after every URL has been
\* processed and only if there is a record: with no record the file is
\* neither created nor modified, and a run interrupted before the last URL
\* is processed leaves no partial CSV.
C9_FileOnlyAfterAllUrls ==
    /\ file # file0 =>
           /\ Len(returned) = url_list
           /\ idx > url_list
           /\ products # <<>>
    /\ (pc = "done" /\ products = <<>>) => file = file0
    /\ (pc = "killed" /\ Len(returned) < url_list) => file = file0

\* a run that replaced a file it found by the rows of its records
C9_Witness ==
    /\ pc = "done"
    /\ file0 = StaleFile
    /\ Len(file.lines) > 1
    /\ file.lines[1] = CSV_HEADERS
    /\ \E i \in DOMAIN returned : returned[i].kind = "none"

\* C10: get makes at most 3 attempts, returns at the first one answered 200
\* without a further attempt or sleep, and sleeps only between two attempts:
\* 1.5 x k seconds after failed attempt k (k = 1, 2), so a call that uses up
\* its 3 attempts has slept exactly twice, 1.5 s and 3.0 s, and not after
\* the last attempt.
C10_SleepsBetweenAttempts ==
    /\ Len(outcomes) <= 3
    /\ \A k \in DOMAIN outcomes : outcomes[k] = "200" => (k = Len(outcomes) /\ pc \notin {"request", "sleep", "giveup"})
    /\ pc = "parse" => Len(sleeps) = Len(outcomes) - 1
    /\ \A k \in DOMAIN sleeps : sleeps[k] = 15 * k
    /\ pc = "giveup" => sleeps = <<15, 30>>

====
